---- MODULE Spec2Model ----
(***************************************************************************)
(* Model of stretched_pads.py: command line constraints are validated by   *)
(* CommandLineParser, then MakeStretched derives the orientation frame,    *)
(* the pad mapping and the drawing mapping and hands them to the template  *)
(* renderer.                                                               *)
(***************************************************************************)
EXTENDS Integers, Sequences, FiniteSets, TLC

(***************************************************************************)
(* Bounds of the explored command lines.                                   *)
(***************************************************************************)
MaxHole == 1
MaxPadMin == 2
MaxPadMax == 5
MaxPadding == 1
MaxFirst == 0
MaxPins == 1
MaxSpacing == 3
MaxKeepout == 1
\* bounds of the numbers handed to the normalizer on its own
MaxNum == 8
MaxDen == 4

(***************************************************************************)
(* Program constants.                                                      *)
(***************************************************************************)
PAD_POS_TOP == "top"
PAD_POS_BOTTOM == "bottom"
PAD_POS_LEFT == "left"
PAD_POS_RIGHT == "right"
PAD_POS_HORIZONTAL == "horizontal"
PAD_POS_VERTICAL == "vertical"

DBG_SHOW_PARAMS == 1
DBG_SHOW_PAD == 2
DBG_SHOW_DRAWING == 4
DBG_SCALE_100_TIMES == 8
DBG_SHOW_MULTIPLE_EXCEPTIONS == 4096
CON_PREFIX_DEFAULT == "connector"
CON_SUFFIX_DEFAULT == "pad"
UNITS_INCHES == "in"
MIL_FACTOR == 1000

(***************************************************************************)
(* Python numbers.  A number is n/d in lowest terms (d > 0) together with  *)
(* its Python type: f = TRUE for a float, FALSE for an int.  The quotients *)
(* the program forms have small integer operands, so the float quotient is *)
(* integral exactly when the rational one is.                              *)
(***************************************************************************)
RECURSIVE Gcd(_, _)
Gcd(a, b) == IF b = 0 THEN a ELSE Gcd(b, a % b)

Abs(i) == IF i < 0 THEN -i ELSE i

Reduce(n, d, f) ==
    LET s == IF d < 0 THEN -1 ELSE 1
        g == Gcd(Abs(n), Abs(d))
    IN  [n |-> (s * n) \div g, d |-> (s * d) \div g, f |-> f]

IntNum(i) == [n |-> i, d |-> 1, f |-> FALSE]

\* Python's a / b: true division, the result is always a float
TrueDiv(a, b) == Reduce(a.n * b.d, a.d * b.n, TRUE)

\* Python's a + b: a float as soon as one operand is a float
NumAdd(a, b) == Reduce(a.n * b.d + b.n * a.d, a.d * b.d, a.f \/ b.f)

\* Python's unary minus
NumNeg(a) == [n |-> -a.n, d |-> a.d, f |-> a.f]

\* Python's a == b and a >= b on numbers: by value, whatever the types
NumEq(a, b) == a.n * b.d = b.n * a.d
\* (variant: the comparison written > instead of >=)
NumGe_strict(a, b) == a.n * b.d > b.n * a.d
NumGe(a, b) == a.n * b.d >= b.n * a.d

\* Python's int(value): truncation toward zero
IntTrunc(value) ==
    IF value.n >= 0 THEN value.n \div value.d ELSE -((-value.n) \div value.d)

\* Python's  value & bit  (bit a power of two) used as a condition
BitSet(value, bit) == (value \div bit) % 2 = 1

\* (variant: the value is returned as it came, an integral float stays a float)
float2int_identity(value) == value

\* (variant: the truncation is returned whether or not it equals the value)
float2int_truncates(value) == IntNum(IntTrunc(value))

float2int(value) ==
    LET int_value == IntNum(IntTrunc(value))
    IN  IF NumEq(value, int_value) THEN int_value ELSE value

(***************************************************************************)
(* The command line values the argument parser lets through.               *)
(***************************************************************************)
PadPositions ==
    {PAD_POS_TOP, PAD_POS_BOTTOM, PAD_POS_LEFT, PAD_POS_RIGHT,
     PAD_POS_HORIZONTAL, PAD_POS_VERTICAL}

DebugBits ==
    {DBG_SHOW_PARAMS, DBG_SHOW_PAD, DBG_SHOW_DRAWING, DBG_SCALE_100_TIMES,
     DBG_SHOW_MULTIPLE_EXCEPTIONS}

RECURSIVE SumSet(_)
SumSet(S) == IF S = {} THEN 0 ELSE LET x == CHOOSE y \in S : TRUE IN x + SumSet(S \ {x})

DebugValues == {SumSet(S) : S \in SUBSET DebugBits}

build_parser ==
    [hole_diameter : 1..MaxHole,
     pad_min : 1..MaxPadMin,
     pad_max : 1..MaxPadMax,
     pad_position : PadPositions,
     hole_padding : 0..MaxPadding,
     first_connector : 0..MaxFirst,
     row_pins : 0..MaxPins,
     pad_spacing : 1..MaxSpacing,
     keepout : 1..MaxKeepout,
     debug : DebugValues]

VARIABLES
    pc,                  \* position of the run in my_main / the two constructors
    command_arguments,   \* the parsed command line
    exception_detected,  \* CommandLineParser.exception_detected
    evaluated,           \* the rules whose condition the validator has tested
    stderr,              \* lines written to the standard error stream
    stdout,              \* debug dumps written to the standard output stream
    exit,                \* how the process ended, NoExit while it runs
    configured,          \* MakeStretched.configured (a dict: keys appear as set)
    jinja_env,           \* MakeStretched.jinja_env
    svg_file,            \* what was written to the output file
    value,               \* float2int on its own: the number it is given
    normalized           \* float2int on its own: what it returned, call after call

vars ==
    <<pc, command_arguments, exception_detected, evaluated, stderr, stdout,
      exit, configured, jinja_env, svg_file, value, normalized>>

EmptyDict == [k \in {} |-> 0]
NoExit == [kind |-> "running", status |-> 0]
NoMsg == [rule |-> 0, args |-> <<>>]

Init ==
    /\ pc = "validate_interdependent_constraints"
    /\ command_arguments \in build_parser
    /\ exception_detected = FALSE
    /\ evaluated = <<>>
    /\ stderr = <<>>
    /\ stdout = <<>>
    /\ exit = NoExit
    /\ configured = EmptyDict
    /\ jinja_env = FALSE
    /\ svg_file = <<>>
    /\ value = IntNum(0)
    /\ normalized = <<>>

(***************************************************************************)
(* CommandLineParser.validate_interdependent_constraints.  A validator     *)
(* state v carries the ValueError travelling to the except clause (raised, *)
(* NoMsg when none), the flag, the lines printed and the rules tested.     *)
(***************************************************************************)
\* (variant: the debug flag is not consulted, every violation is collected)
report_exception_collects(parm, v, msg) ==
    [v EXCEPT !.exception_detected = TRUE,
              !.stderr = Append(@, msg)]

\* (variant: the debug flag is not consulted, every violation raises)
report_exception_raises(parm, v, msg) ==
    [v EXCEPT !.raised = msg]

report_exception(parm, v, msg) ==
    IF ~BitSet(parm.debug, DBG_SHOW_MULTIPLE_EXCEPTIONS)
    THEN [v EXCEPT !.raised = msg]
    ELSE [v EXCEPT !.exception_detected = TRUE,
                   !.stderr = Append(@, msg)]

\* one  if <cond>: self.report_exception(<msg>)  statement inside the try block
Rule(parm, v, k, cond, msg) ==
    IF v.raised # NoMsg
    THEN v
    ELSE LET t == [v EXCEPT !.evaluated = Append(@, k)]
         IN  IF cond THEN report_exception(parm, t, msg) ELSE t

Centred(parm) == parm.pad_position \in {PAD_POS_HORIZONTAL, PAD_POS_VERTICAL}

offset_limit(parm) == float2int(TrueDiv(IntNum(parm.pad_max - parm.pad_min), IntNum(2)))

TryBlock(parm, v0) ==
    LET v1 == Rule(parm, v0, 1, parm.pad_min <= parm.hole_diameter,
                   [rule |-> 1, args |-> <<parm.pad_min, parm.hole_diameter>>])
        v2 == Rule(parm, v1, 2, parm.pad_max < parm.pad_min,
                   [rule |-> 2, args |-> <<parm.pad_max, parm.pad_min>>])
        v3 == Rule(parm, v2, 3, parm.pad_spacing < parm.pad_min + parm.keepout,
                   [rule |-> 3, args |-> <<parm.pad_spacing, parm.pad_min, parm.keepout>>])
        v4 == Rule(parm, v3, 4,
                   parm.pad_min = parm.pad_max /\ ~Centred(parm),
                   [rule |-> 4, args |-> <<parm.pad_position>>])
        v5 == IF Centred(parm)
              THEN Rule(parm, v4, 5, parm.hole_padding # 0,
                        [rule |-> 5, args |-> <<>>])
              ELSE Rule(parm, v4, 6,
                        NumGe(IntNum(parm.hole_padding), offset_limit(parm)),
                        [rule |-> 6, args |-> <<parm.pad_min, parm.pad_max,
                                                parm.hole_padding, offset_limit(parm)>>])
        v7 == IF v5.raised # NoMsg
              THEN v5
              ELSE LET t == [v5 EXCEPT !.evaluated = Append(@, 7)]
                   IN  IF parm.pad_max = parm.pad_min
                       THEN [t EXCEPT !.not_implemented = TRUE]
                       ELSE t
    IN  v7

\* (variant: the final  if self.exception_detected: sys.exit()  is missing)
validate_result_noexit(parm, detected) ==
    LET v0 == [raised |-> NoMsg, not_implemented |-> FALSE,
               exception_detected |-> detected, stderr |-> <<>>, evaluated |-> <<>>]
        v == TryBlock(parm, v0)
    IN  IF v.raised # NoMsg
        THEN \* except ValueError: sys.exit(exception) prints it, status 1
             [v EXCEPT !.stderr = Append(@, v.raised)]
               @@ [exit |-> [kind |-> "SystemExit", status |-> 1]]
        ELSE IF v.not_implemented
        THEN \* not caught: the interpreter ends with the traceback, status 1
             v @@ [exit |-> [kind |-> "NotImplementedError", status |-> 1]]
        ELSE v @@ [exit |-> NoExit]

\* (variant: the flag is tested before the circular-pad test raises)
validate_result_flagfirst(parm, detected) ==
    LET v0 == [raised |-> NoMsg, not_implemented |-> FALSE,
               exception_detected |-> detected, stderr |-> <<>>, evaluated |-> <<>>]
        v == TryBlock(parm, v0)
    IN  IF v.raised # NoMsg
        THEN [v EXCEPT !.stderr = Append(@, v.raised)]
               @@ [exit |-> [kind |-> "SystemExit", status |-> 1]]
        ELSE IF v.exception_detected
        THEN v @@ [exit |-> [kind |-> "SystemExit", status |-> 0]]
        ELSE IF v.not_implemented
        THEN v @@ [exit |-> [kind |-> "NotImplementedError", status |-> 1]]
        ELSE v @@ [exit |-> NoExit]

\* the whole method: the try block, the except clause and the final test
validate_result(parm, detected) ==
    LET v0 == [raised |-> NoMsg, not_implemented |-> FALSE,
               exception_detected |-> detected, stderr |-> <<>>, evaluated |-> <<>>]
        v == TryBlock(parm, v0)
    IN  IF v.raised # NoMsg
        THEN \* except ValueError: sys.exit(exception) prints it, status 1
             [v EXCEPT !.stderr = Append(@, v.raised)]
               @@ [exit |-> [kind |-> "SystemExit", status |-> 1]]
        ELSE IF v.not_implemented
        THEN \* not caught: the interpreter ends with the traceback, status 1
             v @@ [exit |-> [kind |-> "NotImplementedError", status |-> 1]]
        ELSE IF v.exception_detected
        THEN \* sys.exit() without an argument: status 0
             v @@ [exit |-> [kind |-> "SystemExit", status |-> 0]]
        ELSE v @@ [exit |-> NoExit]

validate_interdependent_constraints ==
    /\ pc = "validate_interdependent_constraints"
    /\ LET r == validate_result(command_arguments, exception_detected)
       IN  /\ exception_detected' = r.exception_detected
           /\ evaluated' = r.evaluated
           /\ stderr' = stderr \o r.stderr
           /\ exit' = r.exit
           /\ pc' = IF r.exit = NoExit THEN "print_base_arguments" ELSE "exited"
    /\ UNCHANGED <<command_arguments, stdout, configured, jinja_env, svg_file>>
    /\ UNCHANGED <<value, normalized>>

(***************************************************************************)
(* MakeStretched.                                                          *)
(***************************************************************************)
print_base_arguments ==
    /\ pc = "print_base_arguments"
    /\ LET parm == command_arguments
       IN  stdout' =
             IF ~BitSet(parm.debug, DBG_SHOW_PARAMS)
             THEN stdout
             ELSE Append(stdout,
                    [title |-> "base argument values",
                     values |-> <<parm.hole_diameter, parm.pad_min, parm.pad_max,
                                  parm.pad_position, parm.hole_padding,
                                  parm.first_connector, parm.row_pins,
                                  parm.pad_spacing, parm.debug>>])
    \* self.configured = {}
    /\ configured' = EmptyDict
    /\ pc' = "configure_for_direction"
    /\ UNCHANGED <<command_arguments, exception_detected, evaluated, stderr,
                   exit, jinja_env, svg_file>>
    /\ UNCHANGED <<value, normalized>>

\* (variant: the test names the two centred positions instead of the row direction)
direction_frame_centred(pad_position) ==
    IF pad_position \in {PAD_POS_HORIZONTAL, PAD_POS_VERTICAL}
    THEN [horizontal_factor |-> 1, vertical_factor |-> 0,
          u_dimension |-> "x", v_dimension |-> "y"]
    ELSE [horizontal_factor |-> 0, vertical_factor |-> 1,
          u_dimension |-> "y", v_dimension |-> "x"]

direction_frame(pad_position) ==
    IF pad_position \in {PAD_POS_HORIZONTAL, PAD_POS_BOTTOM, PAD_POS_TOP}
    THEN [horizontal_factor |-> 1, vertical_factor |-> 0,
          u_dimension |-> "x", v_dimension |-> "y"]
    ELSE [horizontal_factor |-> 0, vertical_factor |-> 1,
          u_dimension |-> "y", v_dimension |-> "x"]

configure_for_direction ==
    /\ pc = "configure_for_direction"
    /\ configured' = direction_frame(command_arguments.pad_position) @@ configured
    /\ pc' = "build_pad_data"
    /\ UNCHANGED <<command_arguments, exception_detected, evaluated, stderr,
                   stdout, exit, jinja_env, svg_file>>
    /\ UNCHANGED <<value, normalized>>

\* class OrientedUv: the constructor, the two properties, and  pair.u = -pair.u
create_u_v(conf, u_value, v_value) ==
    [is_horizontal |-> conf.horizontal_factor # 0,
     u |-> float2int(u_value),
     v |-> float2int(v_value)]

\* (variant: x is always the along-row value)
OrientedX_unrotated(pair) == pair.u
OrientedX(pair) == IF pair.is_horizontal THEN pair.u ELSE pair.v
OrientedY(pair) == IF pair.is_horizontal THEN pair.v ELSE pair.u
NegateU(pair) == [pair EXCEPT !.u = NumNeg(@)]

\* (variant: the two biased branches exchanged)
pad_offset_value_swapped(parm) ==
    IF parm.pad_position \in {PAD_POS_HORIZONTAL, PAD_POS_VERTICAL}
    THEN float2int(TrueDiv(IntNum(parm.pad_max - parm.pad_min), IntNum(2)))
    ELSE IF parm.pad_position \in {PAD_POS_BOTTOM, PAD_POS_RIGHT}
    THEN IntNum(parm.pad_max - parm.pad_min - parm.hole_padding)
    ELSE IntNum(parm.hole_padding)

pad_offset_value(parm) ==
    IF parm.pad_position \in {PAD_POS_HORIZONTAL, PAD_POS_VERTICAL}
    THEN float2int(TrueDiv(IntNum(parm.pad_max - parm.pad_min), IntNum(2)))
    ELSE IF parm.pad_position \in {PAD_POS_BOTTOM, PAD_POS_RIGHT}
    THEN IntNum(parm.hole_padding)
    ELSE IntNum(parm.pad_max - parm.pad_min - parm.hole_padding)

\* the dict  data  of build_pad_data, from the arguments and the frame
pad_data(parm, conf) ==
    LET pad_offset == pad_offset_value(parm)
        base == create_u_v(conf, IntNum(parm.pad_spacing), IntNum(0))
        outer0 == create_u_v(conf, IntNum(parm.pad_min), IntNum(0))
        outer1 == NegateU(outer0)
        sweep == create_u_v(conf, IntNum(1), IntNum(0))
        move == create_u_v(conf,
                    TrueDiv(IntNum(parm.pad_min - parm.hole_diameter), IntNum(2)),
                    pad_offset)
        inner0 == create_u_v(conf, IntNum(parm.hole_diameter), IntNum(0))
        inner1 == NegateU(inner0)
    IN  [connector_prefix |-> CON_PREFIX_DEFAULT,
         connector_suffix |-> CON_SUFFIX_DEFAULT,
         starting_connector |-> IntNum(parm.first_connector),
         pin_spacing |-> IntNum(parm.pad_spacing),
         hole_radius |-> float2int(TrueDiv(IntNum(parm.hole_diameter), IntNum(2))),
         full_width |-> IntNum(parm.pad_min),
         half_width |-> float2int(TrueDiv(IntNum(parm.pad_min), IntNum(2))),
         full_length |-> IntNum(parm.pad_max),
         circle_radius |->
             float2int(TrueDiv(IntNum(parm.pad_min + parm.hole_diameter), IntNum(4))),
         u_dimension |-> conf.u_dimension,
         v_dimension |-> conf.v_dimension,
         base_x |-> OrientedX(base), base_y |-> OrientedY(base),
         outer0_dx |-> OrientedX(outer0), outer0_dy |-> OrientedY(outer0),
         outer1_dx |-> OrientedX(outer1), outer1_dy |-> OrientedY(outer1),
         outer_sweep |-> OrientedX(sweep), inner_sweep |-> OrientedY(sweep),
         line_direction |-> <<"h", "v">>[OrientedX(sweep).n + 1],
         move_dx |-> OrientedX(move), move_dy |-> OrientedY(move),
         inner0_dx |-> OrientedX(inner0), inner0_dy |-> OrientedY(inner0),
         inner1_dx |-> OrientedX(inner1), inner1_dy |-> OrientedY(inner1)]

print_pad_parameters(parm, pad, out) ==
    IF ~BitSet(parm.debug, DBG_SHOW_PAD)
    THEN out
    ELSE Append(out,
           [title |-> "pad parmeters",
            values |-> <<pad.connector_prefix, pad.starting_connector,
                         pad.connector_suffix, pad.pin_spacing, pad.hole_radius,
                         pad.full_width, pad.half_width, pad.full_length,
                         pad.circle_radius, pad.u_dimension, pad.v_dimension,
                         pad.base_x, pad.base_y, pad.outer0_dx, pad.outer0_dy,
                         pad.outer1_dx, pad.outer1_dy, pad.outer_sweep,
                         pad.inner_sweep, pad.move_dx, pad.move_dy,
                         pad.inner0_dx, pad.inner0_dy, pad.inner1_dx,
                         pad.inner1_dy>>])

build_pad_data ==
    /\ pc = "build_pad_data"
    /\ LET parm == command_arguments
           data == pad_data(parm, configured)
       IN  /\ configured' =
                 [pad_offset |-> pad_offset_value(parm), pad |-> data] @@ configured
           /\ stdout' = print_pad_parameters(parm, data, stdout)
    /\ pc' = "build_drawing_data"
    /\ UNCHANGED <<command_arguments, exception_detected, evaluated, stderr,
                   exit, jinja_env, svg_file>>
    /\ UNCHANGED <<value, normalized>>

\* (variant: the drawing-dump flag is tested instead of the scaling flag)
scale_factor_value_dumpflag(parm) ==
    IF BitSet(parm.debug, DBG_SHOW_DRAWING)
    THEN float2int(TrueDiv(IntNum(MIL_FACTOR), IntNum(100)))
    ELSE IntNum(MIL_FACTOR)

scale_factor_value(parm) ==
    IF BitSet(parm.debug, DBG_SCALE_100_TIMES)
    THEN float2int(TrueDiv(IntNum(MIL_FACTOR), IntNum(100)))
    ELSE IntNum(MIL_FACTOR)

\* the dict  data  of build_drawing_data, from the arguments and self.configured
drawing_data(parm, conf) ==
    LET size == create_u_v(conf,
                    IntNum(parm.pad_min + (parm.row_pins - 1) * parm.pad_spacing),
                    IntNum(parm.pad_max))
        px_width == OrientedX(size)
        px_height == OrientedY(size)
        scale_factor == scale_factor_value(parm)
        half_pad_minimum == conf.pad.half_width
        copper == create_u_v(conf, half_pad_minimum,
                             NumAdd(half_pad_minimum, conf.pad_offset))
        padt == create_u_v(conf, NumNeg(half_pad_minimum), NumNeg(conf.pad_offset))
    IN  [units |-> UNITS_INCHES,
         copper_stroke |->
             float2int(TrueDiv(IntNum(parm.pad_min - parm.hole_diameter), IntNum(2))),
         px_width |-> px_width,
         px_height |-> px_height,
         unit_height |-> float2int(TrueDiv(px_height, scale_factor)),
         unit_width |-> float2int(TrueDiv(px_width, scale_factor)),
         copper1_translate_x |-> OrientedX(copper),
         copper1_translate_y |-> OrientedY(copper),
         pad_translate_x |-> OrientedX(padt),
         pad_translate_y |-> OrientedY(padt)]

print_drawing_parameters(parm, draw, out) ==
    IF ~BitSet(parm.debug, DBG_SHOW_DRAWING)
    THEN out
    ELSE Append(out,
           [title |-> "drawing parmeters",
            values |-> <<draw.units, draw.px_height, draw.px_width,
                         draw.unit_height, draw.unit_width, draw.copper_stroke,
                         draw.copper1_translate_x, draw.copper1_translate_y,
                         draw.pad_translate_x, draw.pad_translate_y>>])

build_drawing_data ==
    /\ pc = "build_drawing_data"
    /\ LET parm == command_arguments
           data == drawing_data(parm, configured)
       IN  /\ configured' = [drawing |-> data] @@ configured
           /\ stdout' = print_drawing_parameters(parm, data, stdout)
    /\ pc' = "create_jinja_environment"
    /\ UNCHANGED <<command_arguments, exception_detected, evaluated, stderr,
                   exit, jinja_env, svg_file>>
    /\ UNCHANGED <<value, normalized>>

create_jinja_environment ==
    /\ pc = "create_jinja_environment"
    /\ jinja_env' = TRUE
    /\ pc' = "generate_svg_pads"
    /\ UNCHANGED <<command_arguments, exception_detected, evaluated, stderr,
                   stdout, exit, configured, svg_file>>
    /\ UNCHANGED <<value, normalized>>

\* template.render(pad=..., drawing=..., connectors=range(row_pins)), then the write
generate_svg_pads ==
    /\ pc = "generate_svg_pads"
    /\ jinja_env
    /\ svg_file' = Append(svg_file,
                     [pad |-> configured.pad,
                      drawing |-> configured.drawing,
                      connectors |-> command_arguments.row_pins])
    /\ pc' = "done"
    /\ UNCHANGED <<command_arguments, exception_detected, evaluated, stderr,
                   stdout, exit, configured, jinja_env>>
    /\ UNCHANGED <<value, normalized>>

Next ==
    \/ validate_interdependent_constraints
    \/ print_base_arguments
    \/ configure_for_direction
    \/ build_pad_data
    \/ build_drawing_data
    \/ create_jinja_environment
    \/ generate_svg_pads

Spec == Init /\ [][Next]_vars


(***************************************************************************)
(* float2int on its own: it is given a number, int or float, and is then   *)
(* applied again to what it returned, as OrientedUv does with values that  *)
(* were normalized before.                                                 *)
(***************************************************************************)
NormalizerInputs ==
    {IntNum(n) : n \in -MaxNum..MaxNum}
        \cup {Reduce(n, d, TRUE) : n \in -MaxNum..MaxNum, d \in 1..MaxDen}

NormalizerInit ==
    /\ pc = "float2int"
    /\ value \in NormalizerInputs
    /\ normalized = <<>>
    /\ command_arguments = EmptyDict
    /\ exception_detected = FALSE
    /\ evaluated = <<>>
    /\ stderr = <<>>
    /\ stdout = <<>>
    /\ exit = NoExit
    /\ configured = EmptyDict
    /\ jinja_env = FALSE
    /\ svg_file = <<>>

normalize ==
    /\ pc = "float2int"
    /\ normalized = <<>>
    /\ normalized' = <<float2int(value)>>
    /\ UNCHANGED <<pc, command_arguments, exception_detected, evaluated, stderr,
                   stdout, exit, configured, jinja_env, svg_file, value>>

normalize_again ==
    /\ pc = "float2int"
    /\ Len(normalized) = 1
    /\ normalized' = Append(normalized, float2int(normalized[1]))
    /\ UNCHANGED <<pc, command_arguments, exception_detected, evaluated, stderr,
                   stdout, exit, configured, jinja_env, svg_file, value>>

NormalizerNext ==
    \/ normalize
    \/ normalize_again

NormalizerSpec == NormalizerInit /\ [][NormalizerNext]_vars

(***************************************************************************)
(* The documented invariants 1-6 of the constraint set, in integers.       *)
(***************************************************************************)
Invariant1(parm) == parm.pad_min > parm.hole_diameter
Invariant2(parm) == parm.pad_max >= parm.pad_min
Invariant3(parm) == parm.pad_spacing >= parm.pad_min + parm.keepout
Invariant4(parm) ==
    parm.pad_min = parm.pad_max => parm.pad_position \in {"horizontal", "vertical"}
Invariant5(parm) ==
    parm.pad_position \in {"horizontal", "vertical"} => parm.hole_padding = 0
Invariant6(parm) ==
    parm.pad_position \in {"top", "bottom", "left", "right"}
        => 2 * parm.hole_padding < parm.pad_max - parm.pad_min

BrokenRules(parm) ==
    {k \in 1..6 :
        \/ k = 1 /\ ~Invariant1(parm)
        \/ k = 2 /\ ~Invariant2(parm)
        \/ k = 3 /\ ~Invariant3(parm)
        \/ k = 4 /\ ~Invariant4(parm)
        \/ k = 5 /\ ~Invariant5(parm)
        \/ k = 6 /\ ~Invariant6(parm)}

InRuleOrder(S) == SelectSeq(<<1, 2, 3, 4, 5, 6>>, LAMBDA k : k \in S)
LowestOf(S) == CHOOSE k \in S : \A j \in S : k <= j
ReportedRules == [i \in 1..Len(stderr) |-> stderr[i].rule]
FailFast == ~BitSet(command_arguments.debug, 4096)
CollectAll == BitSet(command_arguments.debug, 4096)
Validated == pc # "validate_interdependent_constraints"

Has(key) == key \in DOMAIN configured
FrameBuilt == Has("horizontal_factor") /\ Has("vertical_factor")
                /\ Has("u_dimension") /\ Has("v_dimension")
NothingDownstream ==
    /\ configured = EmptyDict
    /\ jinja_env = FALSE
    /\ svg_file = <<>>

StepRank ==
    [validate_interdependent_constraints |-> 0, print_base_arguments |-> 1,
     configure_for_direction |-> 2, build_pad_data |-> 3, build_drawing_data |-> 4,
     create_jinja_environment |-> 5, generate_svg_pads |-> 6, done |-> 7,
     exited |-> 8]

(***************************************************************************)
(* C1: a run takes the steps validate, orientation frame, pad mapping,     *)
(* drawing mapping, hand-off to the renderer in that order, each at most   *)
(* once and never again; when validation fails (a message was reported or  *)
(* the process ended) the run is over and no frame, pad mapping, drawing   *)
(* mapping or renderer output exists, and when it passes every step finds  *)
(* what it reads in place and after the last step all of them exist.       *)
(***************************************************************************)
C1_ProducedSoFar ==
    /\ FrameBuilt <=> StepRank[pc] \in 3..7
    /\ (Has("pad") /\ Has("pad_offset")) <=> StepRank[pc] \in 4..7
    /\ Has("pad") <=> Has("pad_offset")
    /\ Has("drawing") <=> StepRank[pc] \in 5..7
    /\ svg_file # <<>> <=> pc = "done"
    /\ Len(svg_file) <= 1
    /\ (stderr # <<>> \/ exit # NoExit) => pc = "exited" /\ NothingDownstream
    /\ pc = "exited" => exit # NoExit

C1_StepOrder ==
    pc' # pc =>
       \/ StepRank[pc'] = StepRank[pc] + 1 /\ pc' # "exited"
       \/ pc = "validate_interdependent_constraints" /\ pc' = "exited"

C1_RunsToTheEnd ==
    /\ pc = "build_pad_data" => FrameBuilt
    /\ pc = "build_drawing_data" => FrameBuilt /\ Has("pad") /\ Has("pad_offset")
    /\ pc = "generate_svg_pads" => jinja_env /\ Has("pad") /\ Has("drawing")
    /\ pc = "done" =>
          FrameBuilt /\ Has("pad") /\ Has("drawing") /\ Len(svg_file) = 1

C1_LinearRun ==
    [][/\ C1_StepOrder
       /\ C1_ProducedSoFar /\ C1_ProducedSoFar'
       /\ C1_RunsToTheEnd /\ C1_RunsToTheEnd']_vars

C1_Witness ==
    /\ pc = "done"
    /\ FrameBuilt /\ Has("pad") /\ Has("drawing")
    /\ svg_file = <<[pad |-> configured.pad, drawing |-> configured.drawing,
                     connectors |-> command_arguments.row_pins]>>

(***************************************************************************)
(* C2: validation lets the run proceed to geometry derivation exactly when *)
(* invariants 1-6 all hold and pad_min differs from pad_max; a padding     *)
(* equal to (pad_max - pad_min)/2 is rejected; the debug flags, and so the *)
(* reporting mode, have no part in the outcome.                            *)
(***************************************************************************)
C2_Acceptable(parm) ==
    /\ parm.pad_min > parm.hole_diameter
    /\ parm.pad_max >= parm.pad_min
    /\ parm.pad_spacing >= parm.pad_min + parm.keepout
    /\ (parm.pad_min = parm.pad_max => parm.pad_position \in {"horizontal", "vertical"})
    /\ (parm.pad_position \in {"horizontal", "vertical"} => parm.hole_padding = 0)
    /\ (parm.pad_position \in {"top", "bottom", "left", "right"}
            => 2 * parm.hole_padding < parm.pad_max - parm.pad_min)
    /\ parm.pad_min # parm.pad_max

C2_AcceptIffInvariants ==
    Validated =>
        /\ (pc # "exited") <=> C2_Acceptable(command_arguments)
        /\ (exit = NoExit) <=> C2_Acceptable(command_arguments)

C2_Witness ==
    /\ pc = "exited"
    /\ command_arguments.pad_position = "bottom"
    /\ command_arguments.hole_padding > 0
    /\ 2 * command_arguments.hole_padding
          = command_arguments.pad_max - command_arguments.pad_min
    /\ BrokenRules(command_arguments) = {6}

(***************************************************************************)
(* C3: in fail-fast mode, when one of invariants 1-6 is violated, exactly  *)
(* one message is reported, it is that of the lowest-numbered violated     *)
(* invariant, and no rule after it has been tested.                        *)
(***************************************************************************)
C3_FailFastFirstOnly ==
    (Validated /\ FailFast /\ BrokenRules(command_arguments) # {}) =>
        LET first == LowestOf(BrokenRules(command_arguments))
        IN  /\ ReportedRules = <<first>>
            /\ evaluated # <<>>
            /\ evaluated[Len(evaluated)] = first
            /\ \A i \in 1..Len(evaluated) : evaluated[i] <= first
            /\ \A i \in 1..Len(evaluated) - 1 : evaluated[i] < evaluated[i + 1]

C3_Witness ==
    /\ pc = "exited"
    /\ FailFast
    /\ Cardinality(BrokenRules(command_arguments)) >= 2
    /\ Len(stderr) = 1

(***************************************************************************)
(* C4: in collect-all mode every rule is tested whatever failed before,    *)
(* and the messages reported are exactly one per broken rule of 1-6, in    *)
(* rule order; none when all rules hold.                                   *)
(***************************************************************************)
C4_CollectAllOnePerRule ==
    (Validated /\ CollectAll) =>
        /\ ReportedRules = InRuleOrder(BrokenRules(command_arguments))
        /\ Len(stderr) = Cardinality(BrokenRules(command_arguments))
        /\ evaluated =
             <<1, 2, 3, 4,
               IF command_arguments.pad_position \in {"horizontal", "vertical"}
               THEN 5 ELSE 6,
               7>>
        /\ exception_detected <=> BrokenRules(command_arguments) # {}

C4_Witness ==
    /\ pc = "exited"
    /\ CollectAll
    /\ Cardinality(BrokenRules(command_arguments)) >= 3
    /\ Len(stderr) >= 3

(***************************************************************************)
(* C5 as stated: whenever pad_min equals pad_max, in either mode and       *)
(* whatever else is violated, validation ends the run with the             *)
(* unsupported-configuration signal (NotImplementedError).                 *)
(***************************************************************************)
C5_AlwaysUnsupportedSignal ==
    (Validated /\ command_arguments.pad_min = command_arguments.pad_max) =>
        /\ pc = "exited"
        /\ exit.kind = "NotImplementedError"

(***************************************************************************)
(* C5 amended: whenever pad_min equals pad_max validation ends the run; it *)
(* does so with the unsupported-configuration signal in collect-all mode   *)
(* whatever else is violated, and in fail-fast mode exactly when none of   *)
(* invariants 1-6 is violated; otherwise fail-fast mode ends with the      *)
(* ordinary failure (ValueError, status 1) of the first violated           *)
(* invariant.  The signal is never used for anything but pad_min equal to  *)
(* pad_max, so the two failures can be told apart.                         *)
(***************************************************************************)
C5_UnsupportedSignal ==
    Validated =>
        /\ command_arguments.pad_min = command_arguments.pad_max =>
              /\ pc = "exited"
              /\ exit # NoExit
              /\ CollectAll => exit.kind = "NotImplementedError"
              /\ FailFast =>
                    /\ exit.kind = "NotImplementedError"
                          <=> BrokenRules(command_arguments) = {}
                    /\ BrokenRules(command_arguments) # {} =>
                          exit = [kind |-> "SystemExit", status |-> 1]
        /\ exit.kind = "NotImplementedError" =>
              command_arguments.pad_min = command_arguments.pad_max

C5_Witness ==
    /\ pc = "exited"
    /\ CollectAll
    /\ command_arguments.pad_min = command_arguments.pad_max
    /\ Cardinality(BrokenRules(command_arguments)) >= 2
    /\ exit.kind = "NotImplementedError"

(***************************************************************************)
(* C6: whenever validation fails on one or more of invariants 1-6, in      *)
(* either mode, the run ends with a non-zero exit status.                  *)
(***************************************************************************)
C6_FailureIsNonZero ==
    (Validated /\ BrokenRules(command_arguments) # {}) =>
        /\ pc = "exited"
        /\ exit # NoExit
        /\ exit.status # 0

(***************************************************************************)
(* C7 as stated: for every valid constraint set and every pad position,    *)
(* px_width is pad_min + (row_pins - 1) * pad_spacing and px_height is     *)
(* pad_max.                                                                *)
(***************************************************************************)
RowLength(parm) == parm.pad_min + (parm.row_pins - 1) * parm.pad_spacing

C7_WidthIsRowLength ==
    Has("drawing") =>
        /\ configured.drawing.px_width = IntNum(RowLength(command_arguments))
        /\ configured.drawing.px_height = IntNum(command_arguments.pad_max)

(***************************************************************************)
(* C7 amended: for horizontal, top and bottom px_width is                  *)
(* pad_min + (row_pins - 1) * pad_spacing and px_height is pad_max; for    *)
(* vertical, left and right the two are exchanged: px_width is pad_max and *)
(* px_height is pad_min + (row_pins - 1) * pad_spacing.                    *)
(***************************************************************************)
C7_RowLengthAlongTheRow ==
    Has("drawing") =>
        IF command_arguments.pad_position \in {"horizontal", "top", "bottom"}
        THEN /\ configured.drawing.px_width = IntNum(RowLength(command_arguments))
             /\ configured.drawing.px_height = IntNum(command_arguments.pad_max)
        ELSE /\ configured.drawing.px_width = IntNum(command_arguments.pad_max)
             /\ configured.drawing.px_height = IntNum(RowLength(command_arguments))

C7_Witness ==
    /\ Has("drawing")
    /\ command_arguments.pad_position = "left"
    /\ command_arguments.row_pins = 1
    /\ configured.drawing.px_height = IntNum(RowLength(command_arguments))
    /\ configured.drawing.px_width # configured.drawing.px_height

(***************************************************************************)
(* C8: the run's pad mapping and its pixel width and height, copper stroke *)
(* and translation offsets are those of the run with the same constraints  *)
(* and every debug bit clear, which passes validation too, so any two runs *)
(* that differ in debug flags only agree on them; unit_width and           *)
(* unit_height are the pixel sizes divided by 10 when the scaling bit is   *)
(* set and by 1000 when it is clear, whatever the dump bits are.           *)
(***************************************************************************)
QuietRun ==
    LET q == [command_arguments EXCEPT !.debug = 0]
        frame == direction_frame(q.pad_position)
        pad == pad_data(q, frame)
        conf == [pad_offset |-> pad_offset_value(q), pad |-> pad] @@ frame
    IN  [accepted |-> validate_result(q, FALSE).exit = NoExit,
         pad |-> pad,
         drawing |-> drawing_data(q, conf)]

GeometryFields ==
    {"units", "copper_stroke", "px_width", "px_height", "copper1_translate_x",
     "copper1_translate_y", "pad_translate_x", "pad_translate_y"}

ScaleOf(d) == IF BitSet(d, 8) THEN 10 ELSE 1000

C8_DebugChangesOnlyUnits ==
    Has("drawing") =>
        LET draw == configured.drawing
            debug == command_arguments.debug
            quiet == QuietRun
        IN  /\ quiet.accepted
            /\ configured.pad = quiet.pad
            /\ \A f \in GeometryFields : draw[f] = quiet.drawing[f]
            /\ DOMAIN draw = GeometryFields \cup {"unit_width", "unit_height"}
            /\ draw.unit_width = float2int(TrueDiv(draw.px_width, IntNum(ScaleOf(debug))))
            /\ draw.unit_height = float2int(TrueDiv(draw.px_height, IntNum(ScaleOf(debug))))
            /\ pc = "done" =>
                  /\ svg_file[1].pad = quiet.pad
                  /\ \A f \in GeometryFields : svg_file[1].drawing[f] = quiet.drawing[f]

C8_Witness ==
    /\ pc = "done"
    /\ command_arguments.debug = 15
    /\ Len(stdout) = 3
    /\ QuietRun.pad = configured.pad
    /\ QuietRun.drawing.px_width = configured.drawing.px_width
    /\ QuietRun.drawing.unit_width # configured.drawing.unit_width

(***************************************************************************)
(* C9: for valid constraints pad_offset is not negative; it is exactly     *)
(* (pad_max - pad_min)/2 for horizontal and vertical, hole_padding for     *)
(* bottom and right, pad_max - pad_min - hole_padding for top and left.    *)
(***************************************************************************)
C9_PadOffset ==
    Has("pad_offset") =>
        LET parm == command_arguments
            pad_offset == configured.pad_offset
        IN  /\ pad_offset.d > 0
            /\ pad_offset.n >= 0
            /\ parm.pad_position \in {"horizontal", "vertical"} =>
                  2 * pad_offset.n = (parm.pad_max - parm.pad_min) * pad_offset.d
            /\ parm.pad_position \in {"bottom", "right"} =>
                  pad_offset = IntNum(parm.hole_padding)
            /\ parm.pad_position \in {"top", "left"} =>
                  pad_offset = IntNum(parm.pad_max - parm.pad_min - parm.hole_padding)

C9_Witness ==
    /\ Has("pad_offset")
    /\ command_arguments.pad_position = "top"
    /\ command_arguments.hole_padding > 0
    /\ configured.pad_offset =
          IntNum(command_arguments.pad_max - command_arguments.pad_min
                    - command_arguments.hole_padding)

(***************************************************************************)
(* C10: for each pad position the two factors are 0 or 1, not both 1, and  *)
(* sum to 1: horizontal, bottom and top give (1, 0) with u on x and v on   *)
(* y; vertical, left and right give (0, 1) with u on y and v on x; the     *)
(* builders that follow leave the frame as it was set.                     *)
(***************************************************************************)
FrameOf(conf) ==
    <<conf.horizontal_factor, conf.vertical_factor, conf.u_dimension, conf.v_dimension>>

C10_FrameTable ==
    FrameBuilt =>
        /\ configured.horizontal_factor \in {0, 1}
        /\ configured.vertical_factor \in {0, 1}
        /\ configured.horizontal_factor * configured.vertical_factor = 0
        /\ configured.horizontal_factor + configured.vertical_factor = 1
        /\ command_arguments.pad_position \in {"horizontal", "bottom", "top"} =>
              FrameOf(configured) = <<1, 0, "x", "y">>
        /\ command_arguments.pad_position \in {"vertical", "left", "right"} =>
              FrameOf(configured) = <<0, 1, "y", "x">>

C10_OrientationFrame ==
    [][/\ C10_FrameTable
       /\ C10_FrameTable'
       /\ FrameBuilt => FrameBuilt' /\ FrameOf(configured') = FrameOf(configured)]_vars

C10_Witness ==
    /\ pc = "done"
    /\ command_arguments.pad_position = "right"
    /\ FrameOf(configured) = <<0, 1, "y", "x">>

(***************************************************************************)
(* C11: every numeric field of the pad mapping and of the drawing mapping, *)
(* as handed to the renderer and as shown in the debug dumps, is left as   *)
(* it is by the normalizer: a field whose value is a whole number is an    *)
(* int, never a float, and the fractional values (half a hole, a quarter   *)
(* of pad_min + hole_diameter, ...) are kept exactly.                      *)
(***************************************************************************)
PadNumericFields ==
    {"starting_connector", "pin_spacing", "hole_radius", "full_width",
     "half_width", "full_length", "circle_radius", "base_x", "base_y",
     "outer0_dx", "outer0_dy", "outer1_dx", "outer1_dy", "outer_sweep",
     "inner_sweep", "move_dx", "move_dy", "inner0_dx", "inner0_dy",
     "inner1_dx", "inner1_dy"}

DrawingNumericFields ==
    {"copper_stroke", "px_width", "px_height", "unit_height", "unit_width",
     "copper1_translate_x", "copper1_translate_y", "pad_translate_x",
     "pad_translate_y"}

\* positions of the numbers in the two dumps (the others are strings)
PadDumpNumbers == ({2} \cup 4..9) \cup 12..25
DrawingDumpNumbers == 2..10

\* x is n/d in lowest terms, whole exactly when d = 1, and then an int
CleanNumber(x) ==
    /\ x.d >= 1
    /\ x.d = 1 <=> ~x.f
    /\ \A k \in 2..x.d : ~(x.n % k = 0 /\ x.d % k = 0)

\* x is exactly the fraction num/den
IsFraction(x, num, den) == x.n * den = num * x.d

C11_MappingClean(pad, draw) ==
    /\ \A f \in PadNumericFields : CleanNumber(pad[f])
    /\ \A f \in DrawingNumericFields : CleanNumber(draw[f])

C11_NormalizedOutputs ==
    /\ Has("pad") =>
          LET pad == configured.pad
              parm == command_arguments
          IN  /\ \A f \in PadNumericFields : CleanNumber(pad[f])
              /\ IsFraction(pad.hole_radius, parm.hole_diameter, 2)
              /\ IsFraction(pad.half_width, parm.pad_min, 2)
              /\ IsFraction(pad.circle_radius, parm.pad_min + parm.hole_diameter, 4)
              /\ BitSet(parm.debug, 2) =>
                    \E i \in 1..Len(stdout) :
                        /\ stdout[i].title = "pad parmeters"
                        /\ \A j \in PadDumpNumbers : CleanNumber(stdout[i].values[j])
                        /\ stdout[i].values[5] = pad.hole_radius
                        /\ stdout[i].values[7] = pad.half_width
                        /\ stdout[i].values[9] = pad.circle_radius
    /\ Has("drawing") =>
          LET draw == configured.drawing
              parm == command_arguments
          IN  /\ \A f \in DrawingNumericFields : CleanNumber(draw[f])
              /\ IsFraction(draw.copper_stroke, parm.pad_min - parm.hole_diameter, 2)
              /\ BitSet(parm.debug, 4) =>
                    \E i \in 1..Len(stdout) :
                        /\ stdout[i].title = "drawing parmeters"
                        /\ \A j \in DrawingDumpNumbers : CleanNumber(stdout[i].values[j])
                        /\ stdout[i].values[6] = draw.copper_stroke
    /\ pc = "done" => C11_MappingClean(svg_file[1].pad, svg_file[1].drawing)

C11_Witness ==
    /\ pc = "done"
    /\ command_arguments.debug = 6
    /\ Len(stdout) = 2
    /\ svg_file[1].pad.half_width = IntNum(1)
    /\ svg_file[1].pad.hole_radius = [n |-> 1, d |-> 2, f |-> TRUE]
    /\ svg_file[1].drawing.copper_stroke = [n |-> 1, d |-> 2, f |-> TRUE]
    /\ svg_file[1].drawing.copper1_translate_y = IntNum(2)

(***************************************************************************)
(* C12: float2int keeps the value of every number it is given; a whole     *)
(* number comes back as the int of that value, a number that is not whole  *)
(* comes back as it was given; applying float2int to its own result        *)
(* changes nothing.                                                        *)
(***************************************************************************)
C12_NormalizerIdempotent ==
    /\ Len(normalized) >= 1 =>
          /\ normalized[1].n * value.d = value.n * normalized[1].d
          /\ value.d = 1 => normalized[1] = [n |-> value.n, d |-> 1, f |-> FALSE]
          /\ value.d # 1 => normalized[1] = value
    /\ Len(normalized) >= 2 => normalized[2] = normalized[1]

C12_Witness ==
    /\ Len(normalized) = 2
    /\ value = [n |-> 3, d |-> 1, f |-> TRUE]
    /\ normalized = <<[n |-> 3, d |-> 1, f |-> FALSE], [n |-> 3, d |-> 1, f |-> FALSE]>>

(***************************************************************************)
(* C13: for every constraint set that passes validation, a row of no pins  *)
(* included, the canvas is strictly positive: px_width > 0 and             *)
(* px_height > 0, hence unit_width > 0 and unit_height > 0.                *)
(***************************************************************************)
C13_CanvasPositive ==
    Has("drawing") =>
        /\ configured.drawing.px_width.n > 0
        /\ configured.drawing.px_height.n > 0
        /\ configured.drawing.unit_width.n > 0
        /\ configured.drawing.unit_height.n > 0
====
